---------------------------- MODULE Spec2Model ----------------------------
(***************************************************************************)
(* Model of the room search, the reservation endpoint and the analytics    *)
(* recorder of lookingcom-backend:                                         *)
(*   src/src/schemas/simplified_search.py  (validators, generate_date_ranges)*)
(*   src/src/api/v1/rooms.py               (search_rooms)                  *)
(*   src/src/services/analytics_service.py (AnalyticsService)              *)
(*   src/src/api/v1/reservations.py        (create_reservation)            *)
(*   src/src/services/capcorn_client.py    (CapCornClient)                 *)
(*                                                                         *)
(* Dates are proleptic Gregorian ordinals (date.toordinal()): date.min is  *)
(* ordinal 1, and timedelta(days=n) is integer addition.  A date           *)
(* subtraction that would leave the representable range raises             *)
(* OverflowError, as datetime.date does.                                   *)
(***************************************************************************)
EXTENDS Integers, Sequences, FiniteSets

VARIABLES
    request,        \* the request object handed to the handler (search or reservation)
    validated,      \* TRUE when the object went through the pydantic validators
    pc,             \* position of the handler coroutine
    date_ranges,    \* rooms.py:54  list of (arrival, departure)
    enum_error,     \* exception raised by generate_date_ranges ("none" when it returned)
    tasks,          \* state of each per-window task created by asyncio.gather
    sent,           \* per window: the gateway queries dispatched for it (reservation: the POST)
    results,        \* per window: how its gateway call settled (reservation: how the POST ended)
    settle_order,   \* window indexes in the order their calls settled
    response,       \* what the handler answered
    room_searches,  \* AnalyticsService._room_searches
    reservations,   \* AnalyticsService._reservations
    store_maxlen,   \* the maxlen of both deques (the constructor's max_events)
    log_calls,      \* every event handed to the service so far, in call order
    locked,         \* AnalyticsService._lock is held
    coroutines,     \* the coroutines calling the shared service concurrently
    utcnow,         \* datetime.utcnow(), in whole hours since the server started
    previous_call   \* the answered search_rooms call this one repeats (None: it repeats none)

search_vars == <<request, validated, pc, date_ranges, enum_error, tasks, sent,
                 results, settle_order, response, previous_call>>

lock_vars == <<locked, coroutines>>

vars == <<request, validated, pc, date_ranges, enum_error, tasks, sent, results,
          settle_order, response, room_searches, reservations, store_maxlen,
          log_calls, locked, coroutines, utcnow, previous_call>>

---------------------------------------------------------------------------
(* Bounds of the model *)

\* latest "from" date of a request (ordinal)
MaxFrom == 2
\* widest timespan (to - from, in days) of a request
MaxWidth == 3
\* most log_room_search / log_reservation calls made on one service
MaxLogged == 4
\* largest max_events a service is constructed with when its eviction is examined
MaxStore == 2
\* most coroutines calling the shared service at the same time
MaxCoroutines == 3
\* the clock moves (by an hour or by more than the default timespan) while it is before this hour
MaxClock == 1
\* widest timespan of a request that is sent a second time
MaxRepeatWidth == 2

(* Program constants *)

\* date.min.toordinal(), date.max.toordinal(): the earliest and the latest
\* date datetime.date can hold
DateMin == 1
DateMax == 3652059
\* AnalyticsService.__init__(self, max_events: int = 10000)
max_events == 10000

---------------------------------------------------------------------------
(* Requests *)

Languages == {"de", "en"}

\* Every request object the handler may be handed.  "from" is one of the
\* first dates or of the last two, "to" ranges from one day before "from" to
\* MaxWidth days after it and duration from -1 to MaxWidth + 1, so that
\* each validator has inputs it accepts and rejects; both dates are dates
\* (from date.min to date.max).
to_date(req) == req.from_date + req.width

\* adults and children of a request (adults >= 1, ages 1..17, at most 8
\* children: the party validators accept each of these)
Parties ==
    {[adults |-> 1, children |-> <<>>],
     [adults |-> 2, children |-> <<[age |-> 7]>>]}

Requests ==
    {req \in [from_date : (DateMin..MaxFrom) \cup ((DateMax - 1)..DateMax),
              width     : (-1)..MaxWidth,
              duration  : (-1)..(MaxWidth + 1),
              language  : Languages,
              adults    : {p.adults : p \in Parties},
              children  : {p.children : p \in Parties}] :
        /\ to_date(req) >= DateMin
        /\ to_date(req) <= DateMax
        /\ [adults |-> req.adults, children |-> req.children] \in Parties}

\* TimeSpan.validate_to_after_from: rejects v <= from_date
validate_to_after_from(req) == ~(to_date(req) <= req.from_date)

\* duration: int = Field(..., ge=1)
duration_ge_1(req) == req.duration >= 1

\* SimplifiedRoomSearchRequest.validate_duration_within_timespan:
\*   if "timespan" in info.data:
\*       max_duration = (to_date - from_date).days; rejects v > max_duration
\* The timespan is in info.data only when its own validator accepted it.
timespan_in_info_data(req) == validate_to_after_from(req)
validate_duration_within_inclusive_timespan(req) ==
    IF timespan_in_info_data(req)
    THEN LET max_duration == to_date(req) - req.from_date + 1
         IN  ~(req.duration > max_duration)
    ELSE TRUE
validate_duration_within_timespan(req) ==
    IF timespan_in_info_data(req)
    THEN LET max_duration == to_date(req) - req.from_date
         IN  ~(req.duration > max_duration)
    ELSE TRUE

\* The request passes every validator of the schema (fields are validated in
\* declaration order: timespan before duration).
Validates(req) ==
    /\ validate_to_after_from(req)
    /\ duration_ge_1(req)
    /\ validate_duration_within_timespan(req)

---------------------------------------------------------------------------
(* generate_date_ranges *)

\* max_arrival = self.timespan.to_date - timedelta(days=self.duration)
max_arrival_inclusive_end(to, duration) == to - duration + 1
max_arrival(to, duration) == to - duration

\* while current_arrival <= max_arrival
loop_continues_strict(current_arrival, maxarr) == current_arrival < maxarr
loop_continues(current_arrival, maxarr) == current_arrival <= maxarr

\* departure = current_arrival + timedelta(days=self.duration)
window_departure_last_night(current_arrival, duration) == current_arrival + duration - 1
window_departure(current_arrival, duration) == current_arrival + duration

\* date +- timedelta raises OverflowError when the result is no date
date_overflows(ordinal) == ordinal < DateMin \/ ordinal > DateMax

\* the outcomes of generate_date_ranges: the list returned, or the exception
returns(ranges) == [error |-> "none", date_ranges |-> ranges]
OverflowError == [error |-> "OverflowError"]

\* the while loop: departure (line 73) and current_arrival += timedelta(days=1)
\* (line 75) are dates
RECURSIVE generate_loop(_, _, _, _)
generate_loop(current_arrival, maxarr, duration, acc) ==
    IF loop_continues(current_arrival, maxarr)
    THEN IF date_overflows(window_departure(current_arrival, duration))
         THEN OverflowError
         ELSE IF date_overflows(current_arrival + 1)
         THEN OverflowError
         ELSE generate_loop(current_arrival + 1, maxarr, duration,
                            Append(acc, <<current_arrival,
                                          window_departure(current_arrival, duration)>>))
    ELSE returns(acc)

\* generate_date_ranges(): max_arrival (line 70) is a date, then the loop
generate_date_ranges(req) ==
    IF date_overflows(max_arrival(to_date(req), req.duration))
    THEN OverflowError
    ELSE generate_loop(req.from_date, max_arrival(to_date(req), req.duration),
                       req.duration, <<>>)

\* generate_date_ranges() raises
generate_raises(req) == generate_date_ranges(req).error # "none"

---------------------------------------------------------------------------
(* The availability gateway (CapCornClient.search_room_availability) *)

\* Shapes of a RoomAvailabilityResponse: members -> rooms -> options, an
\* option given by its category code.
NoMembers == <<>>
OneOption == << [rooms |-> << [options |-> <<"DZ">>] >>] >>
Nested ==
    << [rooms |-> << [options |-> <<"DZ", "EZ">>], [options |-> <<>>] >>],
       [rooms |-> << [options |-> <<"SU">>] >>] >>

GatewayShapes == {NoMembers, OneOption, Nested}

\* The response the backend gives to the query of window idx.  "payload"
\* stands for the fields of a RoomOption other than catc (type, description,
\* size, the prices, board, room_type); the backend's answer is marked with
\* the window it answers, so that an option's origin can be read off it.
Stamp(shape, idx) ==
    [m \in DOMAIN shape |->
        [rooms |-> [r \in DOMAIN shape[m].rooms |->
            [options |-> [o \in DOMAIN shape[m].rooms[r].options |->
                [catc |-> shape[m].rooms[r].options[o], payload |-> idx]]]]]]

Pending   == [kind |-> "pending",   members |-> <<>>]
Failed    == [kind |-> "exception", members |-> <<>>]
Cancelled == [kind |-> "cancelled", members |-> <<>>]
Returned(members) == [kind |-> "ok", members |-> members]

\* Ways the awaited call of window idx can settle: a response, an exception
\* (transport error, timeout, HTTP status error, unparsable body), or the
\* task being cancelled (asyncio.CancelledError, a BaseException).
Outcomes(idx) ==
    {Returned(Stamp(s, idx)) : s \in GatewayShapes} \cup {Failed, Cancelled}

---------------------------------------------------------------------------
(* search_rooms: recombination of the gathered results *)

\* asyncio.gather returns the results in the order of the awaitables
gather_as_completed(res, order) == [i \in 1..Len(order) |-> res[order[i]]]
gather(res, order) == [i \in 1..Len(res) |-> res[i]]

\* results = await asyncio.gather(*search_tasks, return_exceptions=True)
all_settled_first_completed(t) == \E i \in DOMAIN t : t[i] = "done"
all_settled(t) == \A i \in DOMAIN t : t[i] = "done"

\* isinstance(result, Exception): CancelledError derives from BaseException
isinstance_Exception(result) == result.kind = "exception"

\* result.members exists on a RoomAvailabilityResponse only
has_members(result) == result.kind = "ok"

RoomOptionWithDateRange(arrival, departure, option) ==
    [arrival |-> arrival, departure |-> departure,
     catc |-> option.catc, payload |-> option.payload]

\* for option in room.options: all_options.append(...)
RECURSIVE for_options_dedup(_, _, _, _, _)
for_options_dedup(options, k, arrival, departure, all_options) ==
    IF k > Len(options) THEN all_options
    ELSE for_options_dedup(options, k + 1, arrival, departure,
            IF \E p \in DOMAIN all_options : all_options[p].catc = options[k].catc
            THEN all_options
            ELSE Append(all_options,
                        RoomOptionWithDateRange(arrival, departure, options[k])))
RECURSIVE for_options(_, _, _, _, _)
for_options(options, k, arrival, departure, all_options) ==
    IF k > Len(options) THEN all_options
    ELSE for_options(options, k + 1, arrival, departure,
            Append(all_options,
                   RoomOptionWithDateRange(arrival, departure, options[k])))

\* for room in member.rooms
RECURSIVE for_rooms(_, _, _, _, _)
for_rooms(rooms, k, arrival, departure, all_options) ==
    IF k > Len(rooms) THEN all_options
    ELSE for_rooms(rooms, k + 1, arrival, departure,
            for_options(rooms[k].options, 1, arrival, departure, all_options))

\* for member in result.members
RECURSIVE for_members(_, _, _, _, _)
for_members(members, k, arrival, departure, all_options) ==
    IF k > Len(members) THEN all_options
    ELSE for_members(members, k + 1, arrival, departure,
            for_rooms(members[k].rooms, 1, arrival, departure, all_options))

\* arrival, departure = date_ranges[idx]
window_of_last(ranges, idx) == ranges[Len(ranges)]
window_of(ranges, idx) == ranges[idx]

RECURSIVE for_results(_, _, _, _)

\* if isinstance(result, Exception): continue
skip_break(res, ranges, idx, all_options) ==
    [raised |-> FALSE, all_options |-> all_options]
skip_continue(res, ranges, idx, all_options) ==
    for_results(res, ranges, idx + 1, all_options)

\* for idx, result in enumerate(results)
for_results(res, ranges, idx, all_options) ==
    IF idx > Len(res) THEN [raised |-> FALSE, all_options |-> all_options]
    ELSE IF isinstance_Exception(res[idx])
         THEN skip_continue(res, ranges, idx, all_options)
    ELSE IF ~has_members(res[idx])
         THEN [raised |-> TRUE, all_options |-> all_options]   \* AttributeError
    ELSE for_results(res, ranges, idx + 1,
            for_members(res[idx].members, 1, window_of(ranges, idx)[1],
                        window_of(ranges, idx)[2], all_options))

\* SimplifiedRoomSearchResponse(total_queries=len(date_ranges),
\*     total_options=len(all_options), duration_days=request.duration,
\*     options=all_options)
SimplifiedRoomSearchResponse_counts_queries(ranges, all_options, duration) ==
    [status |-> 200, total_queries |-> Len(ranges),
     total_options |-> Len(ranges), duration_days |-> duration,
     options |-> all_options]
SimplifiedRoomSearchResponse_counts_options(ranges, all_options, duration) ==
    [status |-> 200, total_queries |-> Len(all_options),
     total_options |-> Len(all_options), duration_days |-> duration,
     options |-> all_options]
SimplifiedRoomSearchResponse(ranges, all_options, duration) ==
    [status |-> 200, total_queries |-> Len(ranges),
     total_options |-> Len(all_options), duration_days |-> duration,
     options |-> all_options]

HTTPException(code) ==
    [status |-> code, total_queries |-> 0, total_options |-> 0,
     duration_days |-> 0, options |-> <<>>]

NoResponse == HTTPException(0)

\* asyncio.gather(..., return_exceptions=True)
return_exceptions_default == FALSE
return_exceptions == TRUE

\* rooms.py:87  all_options = []: a new list in every call
all_options_kept ==
    IF previous_call = <<>> THEN <<>> ELSE previous_call[1].response.options
all_options_empty == <<>>

\* rooms.py:84-131: the code after the gather
aggregate(res, ranges, order, duration) ==
    LET gathered == gather(res, order)
        raises_first == ~return_exceptions
                        /\ \E i \in DOMAIN res : res[i].kind # "ok"
        folded == for_results(gathered, ranges, 1, all_options_empty)
    IN  IF raises_first \/ folded.raised
        THEN HTTPException(500)
        ELSE SimplifiedRoomSearchResponse(ranges, folded.all_options, duration)

---------------------------------------------------------------------------
(* AnalyticsService *)

\* deque(maxlen=...).append: a full deque drops its oldest (leftmost) item
deque_append_drop_newest(q, e, maxlen) ==
    IF Len(q) < maxlen THEN Append(q, e) ELSE q
deque_append(q, e, maxlen) ==
    IF Len(q) < maxlen THEN Append(q, e) ELSE Tail(Append(q, e))

\* Optional[...]: None, or a value
None == <<>>
Some(v) == <<v>>

\* AnalyticsEvent(timestamp, event_type, data, results_count=None)
AnalyticsEvent(timestamp, event_type, data, results_count) ==
    [timestamp |-> timestamp, event_type |-> event_type, data |-> data,
     results_count |-> results_count]

\* results_count: int = 0, the default of log_room_search
results_count_default == 0

\* the event log_room_search(search_data, results_count) builds at time
\* timestamp = datetime.utcnow()
room_search_event(timestamp, search_data, results_count) ==
    AnalyticsEvent(timestamp, "room_search", search_data, Some(results_count))

\* the event log_reservation(reservation_data) builds (results_count is None)
reservation_event(timestamp, reservation_data) ==
    AnalyticsEvent(timestamp, "reservation", reservation_data, None)

\* hours: int = 24, the default of the readers and of the summary
hours_default == 24

\* cutoff_time = datetime.utcnow() - timedelta(hours=hours)
cutoff_time(now, hours) == now - hours

\* datetime.isoformat(): the timestamp as a string
isoformat(timestamp) == [iso |-> timestamp]

\* get_room_searches: the dicts of the stored events with
\* event.timestamp >= cutoff_time, in store order
get_room_searches(store, cutoff) ==
    LET kept == SelectSeq(store, LAMBDA event : event.timestamp >= cutoff)
    IN  [k \in DOMAIN kept |->
            [timestamp |-> isoformat(kept[k].timestamp),
             event_type |-> kept[k].event_type,
             data |-> kept[k].data,
             results_count |-> kept[k].results_count]]

\* get_reservations: the same without results_count
get_reservations(store, cutoff) ==
    LET kept == SelectSeq(store, LAMBDA event : event.timestamp >= cutoff)
    IN  [k \in DOMAIN kept |->
            [timestamp |-> isoformat(kept[k].timestamp),
             event_type |-> kept[k].event_type,
             data |-> kept[k].data]]

\* get_stats: the sizes of both stores and the timestamps at their ends
get_stats(searches, reservs) ==
    [total_searches_in_memory |-> Len(searches),
     total_reservations_in_memory |-> Len(reservs),
     oldest_search |->
        IF searches # <<>> THEN Some(isoformat(searches[1].timestamp)) ELSE None,
     newest_search |->
        IF searches # <<>>
        THEN Some(isoformat(searches[Len(searches)].timestamp)) ELSE None,
     oldest_reservation |->
        IF reservs # <<>> THEN Some(isoformat(reservs[1].timestamp)) ELSE None,
     newest_reservation |->
        IF reservs # <<>>
        THEN Some(isoformat(reservs[Len(reservs)].timestamp)) ELSE None]

\* get_analytics_summary: total_rooms_found =
\*   sum(search.get("results_count", 0) or 0 for search in searches)
RECURSIVE total_rooms_found(_)
total_rooms_found(searches) ==
    IF searches = <<>> THEN 0
    ELSE (IF "results_count" \in DOMAIN Head(searches)
             /\ Head(searches).results_count # None
          THEN Head(searches).results_count[1] ELSE 0)
         + total_rooms_found(Tail(searches))

\* get_analytics_summary: total_revenue =
\*   sum(res.get("data", {}).get("total_amount", 0) for res in reservations)
RECURSIVE total_revenue(_)
total_revenue(reservs) ==
    IF reservs = <<>> THEN 0
    ELSE (IF "data" \in DOMAIN Head(reservs)
             /\ "total_amount" \in DOMAIN Head(reservs).data
          THEN Head(reservs).data.total_amount ELSE 0)
         + total_revenue(Tail(reservs))

(* Python computes total_reservations / total_searches * 100 and          *)
(* round(x, 2) on IEEE-754 doubles.  A double is modelled by its 53-bit    *)
(* mantissa and its exponent e: its value is mant * 2^(e - 52).  The       *)
(* mantissa is a sequence of five limbs in base 2^13, most significant     *)
(* first, the first limb 1 (products carry into the first limb, which is   *)
(* not reduced).  Each operation rounds to nearest, ties to even.  The     *)
(* operators are exact for counts up to 100000.                            *)

RECURSIVE pow2(_)
pow2(k) == IF k = 0 THEN 1 ELSE 2 * pow2(k - 1)

\* a limb holds 13 binary digits
limb_base == pow2(13)

\* limbs * k + carry, limb by limb from the least significant
RECURSIVE mul_limbs(_, _, _)
mul_limbs(limbs, k, carry) ==
    IF Len(limbs) = 1 THEN <<limbs[1] * k + carry>>
    ELSE LET d == limbs[Len(limbs)] * k + carry
         IN  Append(mul_limbs(SubSeq(limbs, 1, Len(limbs) - 1), k, d \div limb_base),
                    d % limb_base)

\* limbs divided by 2^sh (sh < 13), limb by limb from the most significant
RECURSIVE shift_right(_, _, _)
shift_right(limbs, sh, rem) ==
    IF limbs = <<>> THEN <<>>
    ELSE <<(rem * limb_base + Head(limbs)) \div pow2(sh)>>
         \o shift_right(Tail(limbs), sh, Head(limbs) % pow2(sh))

RECURSIVE to_int(_)
to_int(limbs) ==
    IF limbs = <<>> THEN 0
    ELSE limb_base * to_int(SubSeq(limbs, 1, Len(limbs) - 1)) + limbs[Len(limbs)]

any_limb(limbs) == \E i \in DOMAIN limbs : limbs[i] # 0

RECURSIVE bit_length(_)
bit_length(n) == IF n = 0 THEN 0 ELSE 1 + bit_length(n \div 2)

\* round a 53-bit mantissa to nearest, ties to even, given the next binary
\* digit and whether any digit after it is set
round_to_double(mant, round_bit, sticky, e) ==
    IF round_bit = 1 /\ (sticky \/ mant[Len(mant)] % 2 = 1)
    THEN LET up == mul_limbs(mant, 1, 1)
         IN  IF up[1] = 2
             THEN [mant |-> <<1, 0, 0, 0, 0>>, e |-> e + 1]
             ELSE [mant |-> up, e |-> e]
    ELSE [mant |-> mant, e |-> e]

\* the largest k with s * 2^k <= r (r >= s), the smallest k with r * 2^k >= s
RECURSIVE largest_shift(_, _, _)
largest_shift(r, s, k) ==
    IF s * pow2(k + 1) <= r THEN largest_shift(r, s, k + 1) ELSE k
RECURSIVE smallest_shift(_, _, _)
smallest_shift(r, s, k) ==
    IF r * pow2(k) < s THEN smallest_shift(r, s, k + 1) ELSE k

\* n limbs of the fraction rem / den (rem < den) by long division, and the
\* remainder left after them
RECURSIVE div_limbs(_, _, _)
div_limbs(rem, den, n) ==
    IF n = 0 THEN <<>>
    ELSE <<(rem * limb_base) \div den>>
         \o div_limbs((rem * limb_base) % den, den, n - 1)
RECURSIVE div_rem(_, _, _)
div_rem(rem, den, n) ==
    IF n = 0 THEN rem ELSE div_rem((rem * limb_base) % den, den, n - 1)

\* the quotient of num / den (den <= num < 2 * den) at exponent e
float_quotient(num, den, e) ==
    LET rem == div_rem(num - den, den, 4)
    IN  round_to_double(<<1>> \o div_limbs(num - den, den, 4),
                        (2 * rem) \div den, (2 * rem) % den # 0, e)

\* r / s for integers r > 0, s > 0
float_div(r, s) ==
    IF r >= s
    THEN LET k == largest_shift(r, s, 0)
         IN  float_quotient(r, s * pow2(k), k)
    ELSE LET k == smallest_shift(r, s, 1)
         IN  float_quotient(r * pow2(k), s, 0 - k)

\* x * 100
float_mul_100(x) ==
    LET p == mul_limbs(x.mant, 100, 0)
        sh == bit_length(p[1]) - 1
        low == p[Len(p)] % pow2(sh)
    IN  round_to_double(shift_right(p, sh, 0), low \div pow2(sh - 1),
                        low % pow2(sh - 1) # 0, x.e + sh)

\* round(x, 2) in hundredths, for 0 < x < 2^52: the multiple of 0.01
\* nearest to the exact value of x, ties to even
round_2(x) ==
    LET q == mul_limbs(x.mant, 100, 0)
        u == 52 - x.e - 1
        keep == IF Len(q) > u \div 13 THEN Len(q) - u \div 13 ELSE 0
        h == shift_right(SubSeq(q, 1, keep), u % 13, 0)
        sticky == \/ any_limb(SubSeq(q, keep + 1, Len(q)))
                  \/ (keep > 0 /\ q[keep] % pow2(u % 13) # 0)
        ip == to_int(h) \div 2
        half == IF h = <<>> THEN 0 ELSE h[Len(h)] % 2
    IN  IF half = 1 /\ (sticky \/ ip % 2 = 1) THEN ip + 1 ELSE ip

\* conversion_rate = (total_reservations / total_searches * 100)
\*   if total_searches > 0 else 0; reported as round(conversion_rate, 2).
\* In hundredths of a percent (10000 is 100.00 %).
conversion_rate(total_reservations, total_searches) ==
    IF total_searches > 0
    THEN IF total_reservations = 0 THEN 0
         ELSE round_2(float_mul_100(float_div(total_reservations, total_searches)))
    ELSE 0

\* round(total / count, 2) if count > 0 else 0, in hundredths
average(total, count) ==
    IF count > 0
    THEN IF total = 0 THEN 0 ELSE round_2(float_div(total, count))
    ELSE 0

\* search.get("data", {}).get("duration", 0)
duration_of(search) ==
    IF "data" \in DOMAIN search /\ "duration" \in DOMAIN search.data
    THEN search.data.duration ELSE 0

\* room_durations counts the searches of each duration > 0, its keys in the
\* order of their first search; popular_durations is the first five of
\* sorted(room_durations.items(), key=count, reverse=True), a stable sort:
\* durations of equal count keep the order of room_durations.
popular_durations(searches) ==
    LET durations == [i \in DOMAIN searches |-> duration_of(searches[i])]
        keys == {i \in DOMAIN durations :
                    /\ durations[i] > 0
                    /\ \A j \in 1..(i - 1) : durations[j] # durations[i]}
        count(i) == Cardinality({j \in DOMAIN durations : durations[j] = durations[i]})
        rank(i) == 1 + Cardinality({j \in keys :
                          count(j) > count(i) \/ (count(j) = count(i) /\ j < i)})
        shown == IF Cardinality(keys) < 5 THEN Cardinality(keys) ELSE 5
    IN  [r \in 1..shown |->
            LET i == CHOOSE k \in keys : rank(k) = r
            IN  [duration |-> durations[i], count |-> count(i)]]

\* get_analytics_summary from line 99 on: the summary of the two lists the
\* readers returned.  Amounts are whole euros, which round(total_revenue, 2)
\* leaves alone; the rate and the averages are in hundredths.
summary_of(searches, reservs, hours) ==
    LET summary ==
        [timespan_hours |-> hours,
         total_searches |-> Len(searches),
         total_reservations |-> Len(reservs),
         conversion_rate |-> conversion_rate(Len(reservs), Len(searches)),
         total_revenue |-> total_revenue(reservs),
         average_booking_value |-> average(total_revenue(reservs), Len(reservs)),
         total_rooms_found |-> total_rooms_found(searches),
         average_results_per_search |->
            average(total_rooms_found(searches), Len(searches)),
         popular_durations |-> popular_durations(searches),
         searches |-> searches,
         reservations |-> reservs]
    IN  summary

\* AnalyticsService.get_analytics_summary(hours): it awaits
\* get_room_searches(hours), which reads the clock (now_searches) and the
\* searches under the lock, and then get_reservations(hours), which reads
\* the clock again (now_reservations) and the reservations under the lock
\* taken anew.
get_analytics_summary(searches_store, reservations_store, now_searches, now_reservations, hours) ==
    summary_of(get_room_searches(searches_store, cutoff_time(now_searches, hours)),
               get_reservations(reservations_store,
                                cutoff_time(now_reservations, hours)),
               hours)

---------------------------------------------------------------------------
(* The reservation endpoint: requests, backend outcomes, answers *)

\* ReservationRequest bodies (the fields the endpoint and the summary read)
ReservationRequests ==
    [reservation_id : {"R1"}, total_amount : {100, 250},
     arrival : {DateMin}, departure : {DateMin, DateMin + 1}]

\* how the POST to OTA_HotelResNotifRQ can end: an HTTP status, or an
\* exception of httpx (transport error, timeout)
BackendStatuses == {200, 302, 404, 500}
BackendErrors == {"ConnectError", "ReadTimeout"}
BackendOutcomes ==
    {[kind |-> "status", code |-> c, error |-> "none"] : c \in BackendStatuses}
       \cup {[kind |-> "error", code |-> 0, error |-> e] : e \in BackendErrors}

\* response.raise_for_status() raises HTTPStatusError unless the status is 2xx
raise_for_status(code) == ~(200 <= code /\ code <= 299)

\* the message strings of capcorn_client.py:270, 276, 282
NoMessage == [text |-> "none", status_code |-> 0, error |-> "none"]
created_message ==
    [text |-> "Reservation created successfully", status_code |-> 0, error |-> "none"]
status_error_message(code) ==
    [text |-> "Failed to create reservation", status_code |-> code, error |-> "none"]
exception_message(error) ==
    [text |-> "Failed to create reservation", status_code |-> 0, error |-> error]

\* ReservationResponse(success, message, reservation_id=None); raised is the
\* exception that left the client instead of a response ("none": it returned)
ReservationResponse(success, message, reservation_id) ==
    [raised |-> "none", success |-> success, message |-> message,
     reservation_id |-> reservation_id]
NoBody == ReservationResponse(FALSE, NoMessage, "None")
Raises(error) == [NoBody EXCEPT !.raised = error]

\* CapCornClient.create_reservation (capcorn_client.py:263-284)
CapCornClient_create_reservation_uncaught(req, outcome) ==
    IF outcome.kind = "status" /\ ~raise_for_status(outcome.code)
    THEN ReservationResponse(TRUE, created_message, req.reservation_id)
    ELSE IF outcome.kind = "status"
    THEN ReservationResponse(FALSE, status_error_message(outcome.code), "None")
    ELSE Raises(outcome.error)
CapCornClient_create_reservation(req, outcome) ==
    IF outcome.kind = "status" /\ ~raise_for_status(outcome.code)
    THEN ReservationResponse(TRUE, created_message, req.reservation_id)
    ELSE IF outcome.kind = "status"
    THEN ReservationResponse(FALSE, status_error_message(outcome.code), "None")
    ELSE ReservationResponse(FALSE, exception_message(outcome.error), "None")

\* what the endpoint answers: a status with the response body (201) or the
\* detail of an HTTPException
Answer(status, detail, body) == [status |-> status, detail |-> detail, body |-> body]

\* reservations.py:37-53
create_reservation_answer(client_response) ==
    IF client_response.raised # "none"
    THEN Answer(500, exception_message(client_response.raised), NoBody)
    ELSE IF ~client_response.success
    THEN Answer(400, client_response.message, NoBody)
    ELSE Answer(201, NoMessage, client_response)

---------------------------------------------------------------------------
(* The state machine *)

Init ==
    /\ \/ request \in Requests /\ pc = "received"
       \/ request \in ReservationRequests /\ pc = "reservation_received"
    /\ validated = FALSE
    /\ date_ranges = <<>>
    /\ enum_error = "none"
    /\ tasks = <<>>
    /\ sent = <<>>
    /\ results = <<>>
    /\ settle_order = <<>>
    /\ response = NoResponse
    /\ room_searches = <<>>
    /\ reservations = <<>>
    /\ store_maxlen = max_events      \* get_analytics_service(): AnalyticsService()
    /\ log_calls = <<>>
    /\ locked = FALSE
    /\ coroutines = <<>>
    /\ utcnow = 0
    /\ previous_call = None

\* FastAPI builds the request from the body: the validators run, and a body
\* they reject is answered 422 without the handler being called.
validate_request ==
    /\ pc = "received"
    /\ validated' = Validates(request)
    /\ IF Validates(request)
       THEN pc' = "handler" /\ response' = response
       ELSE pc' = "done" /\ response' = HTTPException(422)
    /\ UNCHANGED <<lock_vars, utcnow, previous_call>>
    /\ UNCHANGED <<request, date_ranges, enum_error, tasks, sent, results,
                   settle_order, room_searches, reservations, store_maxlen,
                   log_calls>>

\* search_rooms called on a request object that did not go through the
\* validators (model_construct, or fields assigned after construction: the
\* model has no validate_assignment).  The defensive paths exist for this.
call_unvalidated ==
    /\ pc = "received"
    /\ ~Validates(request)
    /\ pc' = "handler"
    /\ UNCHANGED <<lock_vars, utcnow, previous_call>>
    /\ UNCHANGED <<request, validated, date_ranges, enum_error, tasks, sent,
                   results, settle_order, response, room_searches, reservations,
                   store_maxlen, log_calls>>

\* rooms.py:43-47  await analytics.log_room_search(request.model_dump(mode="json"))
log_room_search_per_window ==
    /\ pc = "handler"
    /\ LET event == room_search_event(utcnow, request, results_count_default)
           n == IF generate_raises(request) THEN 1
                ELSE Len(generate_date_ranges(request).date_ranges)
       IN  /\ room_searches' = room_searches \o [k \in 1..n |-> event]
           /\ log_calls' = log_calls \o [k \in 1..n |-> event]
    /\ pc' = "logged"
    /\ UNCHANGED <<lock_vars, utcnow, previous_call>>
    /\ UNCHANGED <<request, validated, date_ranges, enum_error, tasks, sent,
                   results, settle_order, response, reservations, store_maxlen>>
log_room_search ==
    /\ pc = "handler"
    /\ LET event == room_search_event(utcnow, request, results_count_default)
       IN  /\ room_searches' = deque_append(room_searches, event, store_maxlen)
           /\ log_calls' = Append(log_calls, event)
    /\ pc' = "logged"
    /\ UNCHANGED <<lock_vars, utcnow, previous_call>>
    /\ UNCHANGED <<request, validated, date_ranges, enum_error, tasks, sent,
                   results, settle_order, response, reservations, store_maxlen>>

\* rooms.py:49-84  enumerate the windows; answer 400 when there are none,
\* else create one task per window and await the gather.
search_rooms_dispatch ==
    /\ pc = "logged"
    /\ IF generate_raises(request)
       THEN /\ enum_error' = "OverflowError"
            /\ date_ranges' = date_ranges
            /\ response' = HTTPException(500)
            /\ pc' = "done"
            /\ UNCHANGED <<tasks, sent, results>>
       ELSE LET ranges == generate_date_ranges(request).date_ranges
            IN  /\ enum_error' = "none"
                /\ date_ranges' = ranges
                /\ IF ranges = <<>>
                   THEN /\ response' = HTTPException(400)
                        /\ pc' = "done"
                        /\ UNCHANGED <<tasks, sent, results>>
                   ELSE /\ response' = response
                        /\ pc' = "gather"
                        /\ tasks' = [i \in 1..Len(ranges) |-> "created"]
                        /\ sent' = [i \in 1..Len(ranges) |-> <<>>]
                        /\ results' = [i \in 1..Len(ranges) |-> Pending]
    /\ UNCHANGED <<lock_vars, utcnow, previous_call>>
    /\ UNCHANGED <<request, validated, settle_order, room_searches,
                   reservations, store_maxlen, log_calls>>

\* RoomAvailabilityRequest.validate_departure_after_arrival: rejects v <= arrival
validate_departure_after_arrival(arrival, departure) == ~(departure <= arrival)

\* language_code = 0 if request.language == Language.GERMAN else 1
language_code(req) == IF req.language = "de" THEN 0 ELSE 1

\* rooms=[RoomRequest(adults=request.adults, children=children)]
RoomRequest(adults, children) == [adults |-> adults, children |-> children]

RoomAvailabilityRequest_first_window(req, ranges, i) ==
    [language |-> language_code(req),
     arrival |-> ranges[1][1], departure |-> ranges[1][2],
     rooms |-> <<RoomRequest(req.adults, req.children)>>]
RoomAvailabilityRequest(req, ranges, i) ==
    [language |-> language_code(req),
     arrival |-> ranges[i][1], departure |-> ranges[i][2],
     rooms |-> <<RoomRequest(req.adults, req.children)>>]

\* rooms.py:69-77  search_single_range up to its await: the query is built
\* (a ValidationError ends the task) and handed to the client.  A task runs
\* whatever the handler's position, until it is done or told to cancel.
search_single_range_start(i) ==
    /\ pc \in {"gather", "cancelling"}
    /\ tasks[i] = "created"
    /\ IF validate_departure_after_arrival(date_ranges[i][1], date_ranges[i][2])
       THEN /\ tasks' = [tasks EXCEPT ![i] = "inflight"]
            /\ sent' = [sent EXCEPT ![i] =
                   Append(@, RoomAvailabilityRequest(request, date_ranges, i))]
            /\ UNCHANGED <<results, settle_order>>
       ELSE /\ tasks' = [tasks EXCEPT ![i] = "done"]
            /\ results' = [results EXCEPT ![i] = Failed]
            /\ settle_order' = Append(settle_order, i)
            /\ sent' = sent
    /\ UNCHANGED <<lock_vars, utcnow, previous_call>>
    /\ UNCHANGED <<request, validated, pc, date_ranges, enum_error, response,
                   room_searches, reservations, store_maxlen, log_calls>>

\* How the gateway can answer the query of window i.  In a call that
\* repeats an answered one the gateway is deterministic: the window's call
\* ends as it ended before.
gateway_outcomes(i) ==
    IF previous_call = None THEN Outcomes(i)
    ELSE {previous_call[1].results[i]}

\* the awaited client.search_room_availability of window i settles
search_single_range_settle(i) ==
    /\ pc \in {"gather", "cancelling"}
    /\ tasks[i] = "inflight"
    /\ \E outcome \in gateway_outcomes(i) :
          results' = [results EXCEPT ![i] = outcome]
    /\ tasks' = [tasks EXCEPT ![i] = "done"]
    /\ settle_order' = Append(settle_order, i)
    /\ UNCHANGED <<lock_vars, utcnow, previous_call>>
    /\ UNCHANGED <<request, validated, pc, date_ranges, enum_error, sent,
                   response, room_searches, reservations, store_maxlen,
                   log_calls>>

\* rooms.py:84-131  the gather completes; the results are folded into the
\* response (or the fold raises and the handler answers 500).
search_rooms_aggregate ==
    /\ pc = "gather"
    /\ all_settled(tasks)
    /\ response' = aggregate(results, date_ranges, settle_order, request.duration)
    /\ pc' = "done"
    /\ UNCHANGED <<lock_vars, utcnow, previous_call>>
    /\ UNCHANGED <<request, validated, date_ranges, enum_error, tasks, sent,
                   results, settle_order, room_searches, reservations,
                   store_maxlen, log_calls>>

\* Cancelling the gather's future cancels every child that is not done
\* (asyncio's _GatheringFuture.cancel calls child.cancel() on each).
cancel_children_none(t) == t
cancel_children(t) ==
    [i \in DOMAIN t |-> IF t[i] = "done" THEN "done" ELSE "cancelling"]

\* rooms.py:84  the task running search_rooms is cancelled while it awaits
\* the gather (the server drops the request, or a caller's timeout fires).
cancel_request ==
    /\ pc = "gather"
    /\ tasks' = cancel_children(tasks)
    /\ pc' = "cancelling"
    /\ UNCHANGED <<lock_vars, utcnow, previous_call>>
    /\ UNCHANGED <<request, validated, date_ranges, enum_error, sent, results,
                   settle_order, response, room_searches, reservations,
                   store_maxlen, log_calls>>

\* a child told to cancel gets CancelledError at its await (or before its
\* first step) and ends cancelled
search_single_range_cancelled(i) ==
    /\ pc = "cancelling"
    /\ tasks[i] = "cancelling"
    /\ tasks' = [tasks EXCEPT ![i] = "done"]
    /\ results' = [results EXCEPT ![i] = Cancelled]
    /\ settle_order' = Append(settle_order, i)
    /\ UNCHANGED <<lock_vars, utcnow, previous_call>>
    /\ UNCHANGED <<request, validated, pc, date_ranges, enum_error, sent,
                   response, room_searches, reservations, store_maxlen,
                   log_calls>>

\* rooms.py:84  once every child is done the cancelled gather raises
\* CancelledError into search_rooms; it is a BaseException, so neither
\* except clause (rooms.py:125-131) catches it and no answer is produced.
search_rooms_cancelled ==
    /\ pc = "cancelling"
    /\ all_settled(tasks)
    /\ pc' = "cancelled"
    /\ UNCHANGED <<lock_vars, utcnow, previous_call>>
    /\ UNCHANGED <<request, validated, date_ranges, enum_error, tasks, sent,
                   results, settle_order, response, room_searches, reservations,
                   store_maxlen, log_calls>>

\* the time that passes between two readings of the clock: an hour, or more
\* than the default timespan of a reader
Elapsed == {1, hours_default + 1}

\* The clock is read by a handler when it builds its event and by a reader
\* when it is called; time that passes elsewhere shows at the next reading
\* only, and only the time between two readings matters.  So the clock
\* moves between two requests of the endpoints (when the second has been
\* received) and after the last, and between the calls made to the service.
\* (The concurrent coroutines take the time passed with their readings, see
\* clock_readings.)
clock_observed ==
    \/ pc \in {"reservation_received", "reservation_done", "reservation_cancelled"}
    \/ pc = "service"
    \/ pc = "handler" /\ previous_call # None

\* time passes on the server's clock
clock_tick ==
    /\ utcnow < MaxClock
    /\ clock_observed
    /\ \E elapsed \in Elapsed : utcnow' = utcnow + elapsed
    /\ UNCHANGED lock_vars
    /\ UNCHANGED <<search_vars, room_searches, reservations, store_maxlen,
                   log_calls>>

\* FastAPI builds the ReservationRequest: a body its validator rejects is
\* answered 422 without the handler being called.
validate_reservation_request ==
    /\ pc = "reservation_received"
    /\ LET ok == validate_departure_after_arrival(request.arrival, request.departure)
       IN  /\ validated' = ok
           /\ IF ok
              THEN pc' = "reservation_handler" /\ response' = response
              ELSE pc' = "reservation_done" /\ response' = Answer(422, NoMessage, NoBody)
    /\ UNCHANGED <<lock_vars, utcnow, previous_call>>
    /\ UNCHANGED <<request, date_ranges, enum_error, tasks, sent, results,
                   settle_order, room_searches, reservations, store_maxlen,
                   log_calls>>

\* reservations.py:32-33  await analytics.log_reservation(request.model_dump(mode="json"))
log_reservation_skipped ==
    /\ pc = "reservation_handler"
    /\ pc' = "reservation_logged"
    /\ UNCHANGED <<lock_vars, utcnow, previous_call>>
    /\ UNCHANGED <<request, validated, date_ranges, enum_error, tasks, sent,
                   results, settle_order, response, room_searches, reservations,
                   store_maxlen, log_calls>>
log_reservation ==
    /\ pc = "reservation_handler"
    /\ LET event == reservation_event(utcnow, request)
       IN  /\ reservations' = deque_append(reservations, event, store_maxlen)
           /\ log_calls' = Append(log_calls, event)
    /\ pc' = "reservation_logged"
    /\ UNCHANGED <<lock_vars, utcnow, previous_call>>
    /\ UNCHANGED <<request, validated, date_ranges, enum_error, tasks, sent,
                   results, settle_order, response, room_searches, store_maxlen>>

\* reservations.py:35-37, capcorn_client.py:254-265  the XML is built and
\* posted; the handler is suspended on the reply
create_reservation_post ==
    /\ pc = "reservation_logged"
    /\ sent' = <<[reservation_id |-> request.reservation_id,
                  total_amount |-> request.total_amount,
                  arrival |-> request.arrival, departure |-> request.departure]>>
    /\ pc' = "reservation_awaiting"
    /\ UNCHANGED <<lock_vars, utcnow, previous_call>>
    /\ UNCHANGED <<request, validated, date_ranges, enum_error, tasks, results,
                   settle_order, response, room_searches, reservations,
                   store_maxlen, log_calls>>

\* capcorn_client.py:265-284, reservations.py:37-53  the POST ends and the
\* endpoint answers
create_reservation_settle ==
    /\ pc = "reservation_awaiting"
    /\ \E outcome \in BackendOutcomes :
          /\ results' = <<outcome>>
          /\ response' = create_reservation_answer(
                            CapCornClient_create_reservation(request, outcome))
    /\ pc' = "reservation_done"
    /\ UNCHANGED <<lock_vars, utcnow, previous_call>>
    /\ UNCHANGED <<request, validated, date_ranges, enum_error, tasks, sent,
                   settle_order, room_searches, reservations, store_maxlen,
                   log_calls>>

\* the handler is cancelled while it awaits the POST: CancelledError is a
\* BaseException, so no except clause catches it and nothing is answered
create_reservation_cancelled ==
    /\ pc = "reservation_awaiting"
    /\ pc' = "reservation_cancelled"
    /\ UNCHANGED <<lock_vars, utcnow, previous_call>>
    /\ UNCHANGED <<request, validated, date_ranges, enum_error, tasks, sent,
                   results, settle_order, response, room_searches, reservations,
                   store_maxlen, log_calls>>

\* the server, its search answered or dropped, receives a reservation
\* request: a new handler call, the singleton's stores kept
next_request ==
    /\ pc \in {"done", "cancelled"}
    /\ request' \in ReservationRequests
    /\ pc' = "reservation_received"
    /\ validated' = FALSE
    /\ date_ranges' = <<>>
    /\ enum_error' = "none"
    /\ tasks' = <<>>
    /\ sent' = <<>>
    /\ results' = <<>>
    /\ settle_order' = <<>>
    /\ response' = NoResponse
    /\ UNCHANGED <<lock_vars, utcnow, previous_call>>
    /\ UNCHANGED <<room_searches, reservations, store_maxlen, log_calls>>

Next ==
    \/ validate_request
    \/ call_unvalidated
    \/ log_room_search
    \/ search_rooms_dispatch
    \/ \E i \in DOMAIN tasks : search_single_range_start(i)
    \/ \E i \in DOMAIN tasks : search_single_range_settle(i)
    \/ search_rooms_aggregate
    \/ cancel_request
    \/ \E i \in DOMAIN tasks : search_single_range_cancelled(i)
    \/ search_rooms_cancelled
    \/ validate_reservation_request
    \/ log_reservation
    \/ create_reservation_post
    \/ create_reservation_settle
    \/ create_reservation_cancelled
    \/ next_request
    \/ clock_tick

Spec == Init /\ [][Next]_vars

---------------------------------------------------------------------------
(* The search endpoint called twice with the same request *)

\* what is kept of an answered call: how each window's call ended, the order
\* in which they ended, and the answer
AnsweredCall(window_results, order, answer) ==
    [results |-> window_results, settle_order |-> order, response |-> answer]

\* The client posts the same body again after search_rooms answered it:
\* search_rooms is called a second time on an equal request object.  The
\* handler's locals are new (rooms.py:50-87: settings, client, date_ranges,
\* all_options); the analytics singleton keeps what the first call logged.
search_rooms_again ==
    /\ pc = "done"
    /\ response # HTTPException(422)       \* search_rooms was called
    /\ previous_call = None
    /\ previous_call' = Some(AnsweredCall(results, settle_order, response))
    /\ pc' = "handler"
    /\ date_ranges' = <<>>
    /\ enum_error' = "none"
    /\ tasks' = <<>>
    /\ sent' = <<>>
    /\ results' = <<>>
    /\ settle_order' = <<>>
    /\ response' = NoResponse
    /\ UNCHANGED <<lock_vars, utcnow>>
    /\ UNCHANGED <<request, validated, room_searches, reservations,
                   store_maxlen, log_calls>>

\* a search request of a timespan of at most MaxRepeatWidth days arrives
InitRepeat == Init /\ pc = "received" /\ request.width <= MaxRepeatWidth

\* Both calls run to their answer: a call that is cancelled answers nothing
\* and is not repeated.  Time may pass between the two calls.
NextRepeat ==
    \/ validate_request
    \/ call_unvalidated
    \/ log_room_search
    \/ search_rooms_dispatch
    \/ \E i \in DOMAIN tasks : search_single_range_start(i)
    \/ \E i \in DOMAIN tasks : search_single_range_settle(i)
    \/ search_rooms_aggregate
    \/ search_rooms_again
    \/ clock_tick

SpecRepeat == InitRepeat /\ [][NextRepeat]_vars

---------------------------------------------------------------------------
(* The analytics service on its own: a service constructed with a small    *)
(* max_events and called any number of times (up to MaxLogged).            *)

\* search_data of the calls: two request dumps
SearchPayloads ==
    {[from_date |-> DateMin, width |-> 1, duration |-> 1, language |-> l,
      adults |-> 1, children |-> <<>>] : l \in Languages}

\* reservation_data of the calls: two reservation dumps
ReservationPayloads ==
    {[reservation_id |-> "R1", total_amount |-> 100],
     [reservation_id |-> "R2", total_amount |-> 250]}

\* AnalyticsService(max_events=k): two empty deques of maxlen k
InitAnalytics ==
    /\ request \in {r \in SearchPayloads : r.language = "de"}
    /\ validated = TRUE
    /\ pc = "service"
    /\ date_ranges = <<>>
    /\ enum_error = "none"
    /\ tasks = <<>>
    /\ sent = <<>>
    /\ results = <<>>
    /\ settle_order = <<>>
    /\ response = NoResponse
    /\ room_searches = <<>>
    /\ reservations = <<>>
    /\ store_maxlen \in 1..MaxStore
    /\ log_calls = <<>>
    /\ locked = FALSE
    /\ coroutines = <<>>
    /\ utcnow = 0
    /\ previous_call = None

\* AnalyticsService.log_room_search(search_data, results_count=0)
service_log_room_search(search_data) ==
    /\ pc = "service"
    /\ Len(log_calls) < MaxLogged
    /\ LET event == room_search_event(utcnow, search_data, results_count_default)
       IN  /\ room_searches' = deque_append(room_searches, event, store_maxlen)
           /\ log_calls' = Append(log_calls, event)
    /\ UNCHANGED <<lock_vars, utcnow, previous_call>>
    /\ UNCHANGED <<search_vars, reservations, store_maxlen>>

\* AnalyticsService.log_reservation(reservation_data)
service_log_reservation(reservation_data) ==
    /\ pc = "service"
    /\ Len(log_calls) < MaxLogged
    /\ LET event == reservation_event(utcnow, reservation_data)
       IN  /\ reservations' = deque_append(reservations, event, store_maxlen)
           /\ log_calls' = Append(log_calls, event)
    /\ UNCHANGED <<lock_vars, utcnow, previous_call>>
    /\ UNCHANGED <<search_vars, room_searches, store_maxlen>>

NextAnalytics ==
    \/ \E search_data \in SearchPayloads : service_log_room_search(search_data)
    \/ \E reservation_data \in ReservationPayloads :
          service_log_reservation(reservation_data)
    \/ clock_tick

SpecAnalytics == InitAnalytics /\ [][NextAnalytics]_vars

---------------------------------------------------------------------------
(* Concurrent callers of the singleton                                     *)
(* get_analytics_service() hands every request handler the same            *)
(* AnalyticsService; the handlers are coroutines of one event loop and can *)
(* be suspended at `async with self._lock`.  Each coroutine makes one call.*)

\* the methods of the service that take the lock
Writers == {"log_room_search", "log_reservation"}
Readers == {"get_room_searches", "get_reservations", "get_stats"}

\* the hours a reader is called with
Hours == {hours_default}

\* the dump of the request coroutine c logs
search_data_of(c) ==
    [from_date |-> DateMin, width |-> 1, duration |-> 1, language |-> "de",
     adults |-> c, children |-> <<>>]
reservation_data_of(c) ==
    [reservation_id |-> "R1", total_amount |-> 100 * c]

\* analytics_service.py:40-45, 51-55  the event built before the lock is
\* taken, with the time of the call
event_of(method, c) ==
    IF method = "log_room_search"
    THEN room_search_event(coroutines[c].called_at, search_data_of(c),
                           results_count_default)
    ELSE reservation_event(coroutines[c].called_at, reservation_data_of(c))

\* what a reader builds under the lock from the stores as they are
read_of(method, c) ==
    LET cutoff == cutoff_time(coroutines[c].called_at, coroutines[c].hours)
    IN  IF method = "get_room_searches" THEN get_room_searches(room_searches, cutoff)
        ELSE IF method = "get_reservations" THEN get_reservations(reservations, cutoff)
        ELSE get_stats(room_searches, reservations)

\* a coroutine: the method of the service it is in and where it is in it,
\* the clock reading and the hours of that method, what the method built
\* under the lock; for a coroutine in get_analytics_summary (summary), the
\* searches its first reader returned and the summary it returns
NotCalled ==
    [method |-> "none", at |-> "start", called_at |-> 0, hours |-> hours_default,
     seen |-> <<>>, summary |-> FALSE, searches |-> <<>>, result |-> <<>>]

\* asyncio.Lock.acquire returns at once only when the lock is not held
can_acquire_always(l) == TRUE
can_acquire(l) == ~l

\* the singleton, no call made yet
InitConcurrent ==
    /\ request \in {r \in SearchPayloads : r.language = "de"}
    /\ validated = TRUE
    /\ pc = "concurrent"
    /\ date_ranges = <<>>
    /\ enum_error = "none"
    /\ tasks = <<>>
    /\ sent = <<>>
    /\ results = <<>>
    /\ settle_order = <<>>
    /\ response = NoResponse
    /\ room_searches = <<>>
    /\ reservations = <<>>
    /\ store_maxlen = max_events
    /\ log_calls = <<>>
    /\ locked = FALSE
    /\ coroutines = [c \in 1..MaxCoroutines |-> NotCalled]
    /\ utcnow = 0
    /\ previous_call = None

\* what datetime.utcnow() may return to a coroutine: the reading before it
\* (the first is at 0), or a later time
clock_readings ==
    {utcnow} \cup
    {utcnow + elapsed : elapsed \in
        IF utcnow < MaxClock /\ \E c \in DOMAIN coroutines : coroutines[c].at # "start"
        THEN Elapsed ELSE {}}

\* a handler calls a method of the service; the method runs up to its
\* `async with self._lock`: a writer has built its event, a reader has
\* computed its cutoff_time, both from the clock at this moment.  Coroutines
\* are numbered in the order of their calls.
service_call(c, method, hours) ==
    /\ pc = "concurrent"
    /\ coroutines[c].at = "start"
    /\ \A b \in 1..(c - 1) : coroutines[b].at # "start"
    /\ \E now \in clock_readings :
          /\ utcnow' = now
          /\ coroutines' = [coroutines EXCEPT ![c] =
                [method |-> IF method = "get_analytics_summary"
                            THEN "get_room_searches" ELSE method,
                 at |-> "acquire",
                 called_at |-> now, hours |-> hours, seen |-> <<>>,
                 summary |-> (method = "get_analytics_summary"),
                 searches |-> <<>>, result |-> <<>>]]
    /\ UNCHANGED <<search_vars, room_searches, reservations, store_maxlen,
                   log_calls, locked>>

\* `async with self._lock:` entered
lock_acquire(c) ==
    /\ pc = "concurrent"
    /\ coroutines[c].at = "acquire"
    /\ can_acquire(locked)
    /\ locked' = TRUE
    /\ coroutines' = [coroutines EXCEPT ![c].at = "locked"]
    /\ UNCHANGED <<search_vars, room_searches, reservations, store_maxlen,
                   log_calls, utcnow>>

\* the body under the lock: the append of a writer, the list or dict a
\* reader builds
locked_body(c) ==
    /\ pc = "concurrent"
    /\ coroutines[c].at = "locked"
    /\ LET method == coroutines[c].method
           event == event_of(method, c)
       IN  /\ room_searches' =
                 IF method = "log_room_search"
                 THEN deque_append(room_searches, event, store_maxlen)
                 ELSE room_searches
           /\ reservations' =
                 IF method = "log_reservation"
                 THEN deque_append(reservations, event, store_maxlen)
                 ELSE reservations
           /\ log_calls' =
                 IF method \in Writers THEN Append(log_calls, event)
                 ELSE log_calls
           /\ coroutines' = [coroutines EXCEPT
                 ![c].at = "release",
                 ![c].seen = IF method \in Readers THEN read_of(method, c)
                             ELSE <<>>]
    /\ UNCHANGED <<search_vars, store_maxlen, locked, utcnow>>

\* the `async with` block is left: the lock is released, the method
\* returns.  get_analytics_summary, handed the searches, calls
\* get_reservations, which reads the clock and goes for the lock; handed the
\* reservations, it returns its summary.
lock_release(c) ==
    /\ pc = "concurrent"
    /\ coroutines[c].at = "release"
    /\ locked' = FALSE
    /\ IF coroutines[c].summary /\ coroutines[c].method = "get_room_searches"
       THEN \E now \in clock_readings :
               /\ utcnow' = now
               /\ coroutines' =
                     [coroutines EXCEPT ![c].method = "get_reservations",
                                        ![c].at = "acquire",
                                        ![c].called_at = now,
                                        ![c].searches = coroutines[c].seen,
                                        ![c].seen = <<>>]
       ELSE /\ utcnow' = utcnow
            /\ coroutines' =
                  IF coroutines[c].summary
                  THEN [coroutines EXCEPT
                           ![c].at = "returned",
                           ![c].result = summary_of(coroutines[c].searches,
                                                    coroutines[c].seen,
                                                    coroutines[c].hours)]
                  ELSE [coroutines EXCEPT ![c].at = "returned"]
    /\ UNCHANGED <<search_vars, room_searches, reservations, store_maxlen,
                   log_calls>>

\* The calls made on the service: log_room_search by search_rooms,
\* log_reservation by create_reservation, get_analytics_summary by the
\* summary endpoint (it calls get_room_searches and then get_reservations),
\* and get_stats.
NextConcurrent ==
    \/ \E c \in DOMAIN coroutines, method \in Writers \cup {"get_stats"} :
          service_call(c, method, hours_default)
    \/ \E c \in DOMAIN coroutines, hours \in Hours :
          service_call(c, "get_analytics_summary", hours)
    \/ \E c \in DOMAIN coroutines : lock_acquire(c)
    \/ \E c \in DOMAIN coroutines : locked_body(c)
    \/ \E c \in DOMAIN coroutines : lock_release(c)

SpecConcurrent == InitConcurrent /\ [][NextConcurrent]_vars

---------------------------------------------------------------------------
(* Vocabulary of the properties *)

width == request.width
duration == request.duration
from_date == request.from_date
N == Len(date_ranges)

\* generate_date_ranges was called (a body rejected with 422 never reaches it)
Enumerating ==
    pc \in {"gather", "cancelling", "cancelled", "done"} /\ response.status # 422
\* ... and returned
Enumerated == Enumerating /\ enum_error = "none"

RECURSIVE Concat(_)
Concat(seqs) == IF seqs = <<>> THEN <<>> ELSE Head(seqs) \o Concat(Tail(seqs))

\* the options of a gateway response, member by member, room by room
OptionsOf(members) ==
    Concat([m \in DOMAIN members |->
              Concat([r \in DOMAIN members[m].rooms |->
                        members[m].rooms[r].options])])

\* what window i contributes to the response: its options, each carrying
\* the dates of window i
Contribution(i) ==
    LET opts == OptionsOf(results[i].members)
    IN  [j \in DOMAIN opts |->
            [arrival |-> date_ranges[i][1], departure |-> date_ranges[i][2],
             catc |-> opts[j].catc, payload |-> opts[j].payload]]

Succeeded(i) == results[i].kind = "ok"
Raised(i) == results[i].kind = "exception"

Returned200 == pc = "done" /\ response.status = 200

---------------------------------------------------------------------------
(* C1..C10 *)

\* C1: for 1 <= duration <= width, generate_date_ranges returns exactly
\* width - duration + 1 windows; the i-th (from 0) has arrival = from + i and
\* departure = arrival + duration, so arrivals ascend in steps of one day and
\* the last departure is "to".  The worked example of the specification
\* (2024-01-01 .. 2024-01-08, duration 4; 2024-01-01 is ordinal 738886) gives
\* the four windows it lists.
C1_WindowCount ==
    /\ (Enumerated /\ 1 <= duration /\ duration <= width) =>
          /\ N = width - duration + 1
          /\ \A i \in 1..N :
                date_ranges[i] = <<from_date + (i - 1),
                                   from_date + (i - 1) + duration>>
          /\ \A i \in 1..(N - 1) : date_ranges[i + 1][1] = date_ranges[i][1] + 1
          /\ date_ranges[N][2] = to_date(request)
    /\ generate_date_ranges([from_date |-> 738886, width |-> 7, duration |-> 4,
                             language |-> "de"]).date_ranges
         = << <<738886, 738890>>, <<738887, 738891>>,
              <<738888, 738892>>, <<738889, 738893>> >>

C1_Witness ==
    /\ Enumerated /\ validated
    /\ duration = 2 /\ width = 3
    /\ date_ranges = << <<from_date, from_date + 2>>, <<from_date + 1, from_date + 3>> >>

\* C2: when duration equals the timespan width, generate_date_ranges returns
\* exactly one window, (timespan.from, timespan.to).
C2_SingleWindow ==
    (Enumerated /\ duration = width) =>
        date_ranges = << <<from_date, to_date(request)>> >>

C2_Witness ==
    /\ Enumerated /\ validated
    /\ duration = width /\ width = 3
    /\ N = 1

\* C3: in a response of search_rooms the options are grouped by window in the
\* order of the windows, whatever the order in which the calls settled: an
\* option that came from window i never follows one that came from window j
\* when i < j.
C3_WindowOrder ==
    Returned200 =>
        \A p, q \in DOMAIN response.options :
            p < q => response.options[p].payload <= response.options[q].payload

C3_Witness ==
    /\ Returned200
    /\ N >= 2
    /\ settle_order[1] > settle_order[2]
    /\ \E p, q \in DOMAIN response.options :
          response.options[p].payload < response.options[q].payload

\* C4: if the call of window k raises and every other call returns, the
\* answer is a response whose options are exactly the contributions of the
\* other windows in window order, none carrying window k's dates, with
\* total_queries = N; the other calls were each dispatched once with their
\* own dates and returned, and window k was not queried again.
C4_OneWindowFails ==
    \A k \in 1..N :
        (pc = "done" /\ Raised(k) /\ \A i \in (1..N) \ {k} : Succeeded(i)) =>
            /\ response.status = 200
            /\ response.total_queries = N
            /\ response.options =
                  Concat([i \in 1..N |-> IF i = k THEN <<>> ELSE Contribution(i)])
            /\ \A p \in DOMAIN response.options :
                  /\ response.options[p].arrival # date_ranges[k][1]
                  /\ response.options[p].payload # k
            /\ \A p, q \in DOMAIN response.options :
                  p < q => response.options[p].arrival <= response.options[q].arrival
            /\ \A i \in 1..N : Len(sent[i]) <= 1
            /\ \A i \in (1..N) \ {k} :
                  /\ Len(sent[i]) = 1
                  /\ sent[i][1].arrival = date_ranges[i][1]
                  /\ sent[i][1].departure = date_ranges[i][2]

C4_Witness ==
    /\ pc = "done" /\ N = 3
    /\ Raised(2) /\ Succeeded(1) /\ Succeeded(3)
    /\ Len(sent[2]) = 1
    /\ Contribution(1) # <<>> /\ Contribution(3) # <<>>
    /\ response.status = 200
    /\ response.options = Contribution(1) \o Contribution(3)

\* C5: if every one of the N calls raises, search_rooms does not raise: it
\* answers total_queries = N, total_options = 0, options = [].
C5_AllWindowsFail ==
    (pc = "done" /\ N >= 1 /\ \A i \in 1..N : Raised(i)) =>
        /\ response.status = 200
        /\ response.total_queries = N
        /\ response.total_options = 0
        /\ response.options = <<>>

C5_Witness ==
    /\ pc = "done" /\ validated /\ N = 3
    /\ \A i \in 1..N : Raised(i) /\ Len(sent[i]) = 1
    /\ response.status = 200 /\ response.total_queries = 3

\* C6: in every response of search_rooms, whichever calls succeeded or
\* failed, total_options is the length of options.
C6_TotalOptions ==
    Returned200 => response.total_options = Len(response.options)

C6_Witness ==
    /\ Returned200
    /\ \E i, j \in 1..N : Raised(i) /\ Succeeded(j)
    /\ response.total_options = Len(response.options)
    /\ response.total_options > N

\* C7: in every response of search_rooms total_queries is the number of
\* windows enumerated, width - duration + 1, whatever the number of calls
\* that succeeded.
C7_TotalQueries ==
    Returned200 =>
        /\ response.total_queries = N
        /\ response.total_queries = width - duration + 1

C7_Witness ==
    /\ Returned200 /\ validated
    /\ response.total_queries = 3
    /\ Cardinality({i \in 1..N : Succeeded(i)}) = 1
    /\ Len(response.options) = 1

\* C8: search_rooms is a full barrier: whenever it has answered (and while
\* it aggregates), every one of the N calls has settled; no answer exists
\* while a call is still to start or in flight.
C8_FullBarrier ==
    (pc = "done" \/ response # NoResponse) =>
        \A i \in DOMAIN tasks :
            /\ tasks[i] = "done"
            /\ results[i] # Pending

C8_Witness ==
    /\ pc = "gather" /\ response = NoResponse
    /\ \E i, j \in DOMAIN tasks :
          /\ tasks[i] = "done" /\ Succeeded(i) /\ Contribution(i) # <<>>
          /\ tasks[j] = "inflight"

\* C9: when enumeration yields zero windows search_rooms answers 400 before
\* any gateway call is dispatched, and that is the only way a search whose
\* input passed validation ends in an error instead of a response.
C9_OnlyZeroWindowsIsFatal ==
    /\ (pc = "done" /\ Enumerated /\ date_ranges = <<>>) =>
          (response.status = 400 /\ tasks = <<>>)
    /\ (pc = "done" /\ validated /\ response.status # 200) =>
          (response.status = 400 /\ Enumerated /\ date_ranges = <<>> /\ tasks = <<>>)

\* The first half of C9 on its own: zero windows are answered 400 with no
\* task created.
ZeroWindowsAnswered400 ==
    (pc = "done" /\ Enumerated /\ date_ranges = <<>>) =>
        (response.status = 400 /\ tasks = <<>>)

\* C10 as stated: called on a timespan with to > from and a duration >= 1
\* that is greater than the timespan width (so that maxArrival, a date, lies
\* before timespan.from), the enumerator fails with InvalidRangeError
\* instead of returning no windows.
C10_RaisesInvalidRange ==
    (/\ Enumerating
     /\ validate_to_after_from(request) /\ duration_ge_1(request)
     /\ duration > width
     /\ to_date(request) - duration >= DateMin) =>
        (enum_error = "InvalidRangeError" /\ ~(enum_error = "none" /\ date_ranges = <<>>))

\* C10 as amended: called with duration greater than the timespan width, the
\* enumerator raises no InvalidRangeError.  It returns an empty list, which
\* search_rooms answers with 400 and no gateway call; only when
\* to - duration days precedes date.min does the subtraction raise
\* OverflowError, which search_rooms answers with 500.
C10_ReturnsEmpty ==
    (Enumerating /\ duration > width) =>
        IF to_date(request) - duration >= DateMin
        THEN /\ enum_error = "none"
             /\ date_ranges = <<>>
             /\ pc = "done" /\ response.status = 400 /\ tasks = <<>>
        ELSE /\ enum_error = "OverflowError"
             /\ pc = "done" /\ response.status = 500 /\ tasks = <<>>

C10_Witness ==
    /\ Enumerated /\ ~validated
    /\ width >= 1 /\ duration > width
    /\ date_ranges = <<>>
    /\ response.status = 400

---------------------------------------------------------------------------
(* C11..C20 *)

\* C11: a search is never answered 5xx because per-window calls failed:
\* however a call settles unsuccessfully (an exception, or the call being
\* cancelled), search_rooms does not re-throw it and answers with a response
\* carrying the summary counts.
C11_NeverServerError ==
    (pc = "done" /\ tasks # <<>>) =>
        /\ response.status = 200
        /\ response.total_queries = N
        /\ response.total_options = Len(response.options)

\* the category codes of a sequence of options, in order
Catcs(options) == [p \in DOMAIN options |-> options[p].catc]

\* C12: the options of a response are exactly the concatenation, in window
\* order, of the successful windows' options flattened member by member,
\* room by room, option by option: every option once, nothing merged (a
\* category code returned for two windows appears twice) and nothing
\* re-sorted.
C12_FlattenedInOrder ==
    Returned200 =>
        /\ response.options =
              Concat([i \in 1..N |-> IF Succeeded(i) THEN Contribution(i) ELSE <<>>])
        /\ \A i \in 1..N :
              Succeeded(i) =>
                 Catcs(SelectSeq(response.options, LAMBDA o : o.payload = i))
                    = Catcs(OptionsOf(results[i].members))

C12_Witness ==
    /\ Returned200
    /\ \E i, j \in 1..N :
          /\ i < j
          /\ results[i] = Returned(Stamp(Nested, i))
          /\ results[j] = Returned(Stamp(OneOption, j))
          /\ \A h \in 1..N : Succeeded(h) => h \in {i, j}
    /\ Catcs(response.options) = <<"DZ", "EZ", "SU", "DZ">>

\* C13: every option of a response carries the arrival and departure of
\* the window whose gateway call returned it: the pair is one of the
\* enumerated windows, departure = arrival + duration, and it is never the
\* pair of another window (failed windows before it do not shift it).
C13_TaggedWithOwnWindow ==
    Returned200 =>
        \A p \in DOMAIN response.options :
            LET o == response.options[p]
            IN  /\ o.payload \in 1..N
                /\ <<o.arrival, o.departure>> = date_ranges[o.payload]
                /\ o.departure = o.arrival + duration
                /\ \A i \in (1..N) \ {o.payload} :
                      <<o.arrival, o.departure>> # date_ranges[i]

C13_Witness ==
    /\ Returned200 /\ N = 3
    /\ Raised(1) /\ Succeeded(2) /\ Raised(3)
    /\ response.options # <<>>
    /\ \A p \in DOMAIN response.options :
          /\ response.options[p].payload = 2
          /\ response.options[p].arrival = from_date + 1

\* the query search_rooms should send for window i
QueryOf(i) ==
    [language |-> IF request.language = "de" THEN 0 ELSE 1,
     arrival |-> date_ranges[i][1], departure |-> date_ranges[i][2],
     rooms |-> <<[adults |-> request.adults, children |-> request.children]>>]

\* C14: for a validated request search_rooms creates one task per enumerated
\* window, all at once (no call has settled before the last one exists), and
\* nothing bounds how many are in flight: a created task can always start,
\* however many others are in flight.  Each window is queried at most once,
\* with its own arrival and departure and the request's language, adults and
\* children; when the search has answered, every window was queried exactly
\* once.
C14_OneQueryPerWindow ==
    (validated /\ tasks # <<>>) =>
        /\ DOMAIN tasks = 1..N
        /\ N = width - duration + 1
        /\ \A i \in 1..N :
              /\ Len(sent[i]) <= 1
              /\ tasks[i] = "created" => (sent[i] = <<>> /\ results[i] = Pending)
              /\ sent[i] # <<>> => sent[i][1] = QueryOf(i)
              /\ (pc = "gather" /\ tasks[i] = "created") =>
                    ENABLED search_single_range_start(i)
              /\ pc = "done" => Len(sent[i]) = 1

C14_Witness ==
    /\ validated /\ pc = "gather" /\ N = 3
    /\ request.language = "en" /\ request.adults = 2
    /\ \A i \in 1..N : tasks[i] = "inflight" /\ sent[i] = <<QueryOf(i)>>

\* C15: search_rooms called a second time with the same request, against a
\* gateway that ends each window's call as it ended in the first call,
\* answers as it answered the first time, whatever the order in which the
\* calls of either run complete and whatever was logged or however much
\* time passed in between: the same status, total_queries, total_options
\* and duration_days, and the same options in the same order.
C15_SameAnswerTwice ==
    (pc = "done" /\ previous_call # None) =>
        /\ results = previous_call[1].results
        /\ response.status = previous_call[1].response.status
        /\ response.total_queries = previous_call[1].response.total_queries
        /\ response.total_options = previous_call[1].response.total_options
        /\ response.duration_days = previous_call[1].response.duration_days
        /\ response.options = previous_call[1].response.options

\* both calls answered 200 with the options of windows 1 and 2; the window
\* calls completed in the order 1, 2 in the first call and 2, 1 in the
\* second, which ran an hour later on a store holding the first call's event
C15_Witness ==
    /\ Returned200 /\ previous_call # None /\ N = 2
    /\ previous_call[1].settle_order = <<1, 2>>
    /\ settle_order = <<2, 1>>
    /\ Contribution(1) # <<>> /\ Contribution(2) # <<>>
    /\ Len(Contribution(1)) # Len(Contribution(2))
    /\ response.options = Contribution(1) \o Contribution(2)
    /\ response = previous_call[1].response
    /\ Len(room_searches) = 2
    /\ room_searches[2].timestamp = room_searches[1].timestamp + 1
    /\ Len(room_searches) = 2
    /\ room_searches[2].timestamp = room_searches[1].timestamp + 1

\* a step of the request taken after its cancellation sends nothing and
\* completes no call except as cancelled
CancelledStep ==
    (pc \in {"cancelling", "cancelled"} /\ request' = request) =>
        /\ sent' = sent
        /\ \A i \in 1..N :
              results'[i] # results[i] =>
                 (results[i] = Pending /\ results'[i] = Cancelled)

\* C16: once the request running search_rooms has been cancelled, every
\* window call that was not done is cancelled: no query is sent afterwards,
\* no call completes with anything but a cancellation, and when the
\* cancellation reaches search_rooms no window call is left running.
C16_CancelsInFlight ==
    /\ [](pc = "cancelled" => \A i \in 1..N : tasks[i] = "done")
    /\ [][CancelledStep]_vars

C16_Witness ==
    /\ pc = "cancelled" /\ N = 3
    /\ results[1].kind = "ok" /\ sent[1] # <<>>
    /\ results[2] = Cancelled /\ sent[2] # <<>>
    /\ results[3] = Cancelled /\ sent[3] = <<>>
    /\ response = NoResponse

\* C17: a request accepted by the validators (to > from and
\* 1 <= duration <= width) enumerates at least one window: the enumeration
\* returns, it is not empty, and search_rooms does not take its 400 path.
C17_ValidatedHasWindow ==
    (validated /\ Enumerating) =>
        /\ validate_to_after_from(request)
        /\ 1 <= duration /\ duration <= width
        /\ Enumerated
        /\ N >= 1
        /\ tasks # <<>>
        /\ response.status # 400

C17_Witness ==
    /\ validated /\ Returned200
    /\ duration = width /\ width = MaxWidth
    /\ N = 1 /\ response.total_queries = 1

\* search_rooms has been entered and has passed its analytics call
PastLogging ==
    pc \in {"logged", "gather", "cancelling", "cancelled"}
       \/ (pc = "done" /\ response.status # 422)

\* C18: search_rooms calls the analytics recorder exactly once per request,
\* before the window tasks are created and never from a window task: no call
\* before the handler logs, one room_search event of this request from then
\* on, still one when the N tasks exist, run and settle.
C18_LoggedOnceBeforeFanOut ==
    /\ (pc \in {"received", "handler"} \/ (pc = "done" /\ response.status = 422)) =>
          (log_calls = <<>> /\ tasks = <<>>)
    /\ PastLogging =>
          /\ Len(log_calls) = 1
          /\ \E timestamp \in 0..utcnow :
                log_calls[1] =
                   room_search_event(timestamp, request, results_count_default)
          /\ room_searches = log_calls
          /\ reservations = <<>>
    /\ pc = "logged" => tasks = <<>>

C18_Witness ==
    /\ pc = "done" /\ N = 3 /\ response.status = 200
    /\ \A i \in 1..N : tasks[i] = "done" /\ sent[i] # <<>>
    /\ Len(log_calls) = 1 /\ Len(room_searches) = 1
    /\ log_calls[1].event_type = "room_search"
    /\ log_calls[1].data = request

\* the event lies in the timespan of a reader called at time now with the
\* default hours
InTimespan(event, now) == event.timestamp >= cutoff_time(now, hours_default)

\* the second reading of the clock by a summary asked for now: the clock
\* stands still or moves between its two readers
SecondReadings == {utcnow} \cup {utcnow + elapsed : elapsed \in Elapsed}

\* C19: the room_search event recorded for a search carries in
\* results_count the number of options the search found (the total_options
\* of its response), so total_rooms_found of the summary is the sum of the
\* options found by the recorded searches.
C19_ResultsCountIsOptionsFound ==
    Returned200 =>
        /\ room_searches[Len(room_searches)].results_count
              = Some(response.total_options)
        /\ InTimespan(room_searches[Len(room_searches)], utcnow) =>
              \A later \in SecondReadings :
                 get_analytics_summary(room_searches, reservations, utcnow, later,
                                       hours_default).total_rooms_found
                    = response.total_options

\* the events of one type among the calls made so far, in logging order
LoggedOf(event_type) ==
    SelectSeq(log_calls, LAMBDA e : e.event_type = event_type)

\* the last k items of a sequence
LastOf(s, k) == SubSeq(s, Len(s) - k + 1, Len(s))

Min(a, b) == IF a <= b THEN a ELSE b

\* C20: after any sequence of log_room_search and log_reservation calls each
\* store holds at most max_events events: the most recent min(n, max_events)
\* of the n events logged for its type, in logging order (the oldest is the
\* one evicted from a full store).
C20_StoresKeepMostRecent ==
    pc = "service" =>
        /\ Len(room_searches) <= store_maxlen
        /\ Len(reservations) <= store_maxlen
        /\ room_searches =
              LastOf(LoggedOf("room_search"),
                     Min(Len(LoggedOf("room_search")), store_maxlen))
        /\ reservations =
              LastOf(LoggedOf("reservation"),
                     Min(Len(LoggedOf("reservation")), store_maxlen))

C20_Witness ==
    /\ pc = "service" /\ store_maxlen = 2
    /\ Len(LoggedOf("room_search")) = 3
    /\ Len(room_searches) = 2
    /\ room_searches = SubSeq(LoggedOf("room_search"), 2, 3)
    /\ room_searches # SubSeq(LoggedOf("room_search"), 1, 2)
    /\ Len(reservations) = 1

\* the coroutines inside `async with self._lock`
InLock == {c \in DOMAIN coroutines : coroutines[c].at \in {"locked", "release"}}

\* the coroutines whose append has been made
Appended(method) ==
    {c \in DOMAIN coroutines :
        coroutines[c].method = method /\ coroutines[c].at \in {"release", "returned"}}

\* how often event e is in store q
Occurrences(q, e) == Cardinality({k \in DOMAIN q : q[k] = e})

\* C21: the recorder serializes its appends on the shared singleton: at most
\* one coroutine is inside the lock at a time (and the lock is held exactly
\* then), the n log calls whose append has been made left exactly n events,
\* each once, and while a reader is inside the lock the store it copied does
\* not change under it.
C21_AppendsSerialized ==
    pc = "concurrent" =>
        /\ Cardinality(InLock) <= 1
        /\ locked = (InLock # {})
        /\ Len(room_searches) = Cardinality(Appended("log_room_search"))
        /\ Len(reservations) = Cardinality(Appended("log_reservation"))
        /\ \A c \in Appended("log_room_search") :
              Occurrences(room_searches, event_of("log_room_search", c)) = 1
        /\ \A c \in Appended("log_reservation") :
              Occurrences(reservations, event_of("log_reservation", c)) = 1
        /\ \A c \in DOMAIN coroutines :
              (coroutines[c].at = "release" /\ coroutines[c].method \in Readers) =>
                 coroutines[c].seen = read_of(coroutines[c].method, c)

C21_Witness ==
    /\ pc = "concurrent" /\ locked
    /\ coroutines[1].method = "log_room_search" /\ coroutines[1].at = "returned"
    /\ coroutines[2].summary
    /\ coroutines[2].method = "get_room_searches" /\ coroutines[2].at = "release"
    /\ coroutines[2].hours = hours_default
    /\ Len(coroutines[2].seen) = 1
    /\ coroutines[2].seen[1].data = search_data_of(1)
    /\ coroutines[3].method = "log_room_search" /\ coroutines[3].at = "acquire"
    /\ room_searches = <<event_of("log_room_search", 1)>>

\* create_reservation has answered a request that reached the backend call
ReservationAnswered == pc = "reservation_done" /\ results # <<>>

\* the backend call ended in an HTTP error status, a transport error or a
\* timeout
BackendFailed(outcome) ==
    outcome.kind = "error" \/ ~(200 <= outcome.code /\ outcome.code <= 299)

\* C22: in create_reservation every failure of the backend call (HTTP error
\* status, transport error, timeout) is answered 400 with the client's
\* failure message and never 500; the answer is 201 with the request's
\* reservation_id exactly when the backend returned a success status.
C22_BackendFailureIs400 ==
    ReservationAnswered =>
        LET outcome == results[1]
        IN  /\ response.status \in {201, 400}
            /\ BackendFailed(outcome) =>
                  /\ response.status = 400
                  /\ response.detail.text = "Failed to create reservation"
                  /\ response.detail =
                        IF outcome.kind = "error"
                        THEN exception_message(outcome.error)
                        ELSE status_error_message(outcome.code)
            /\ (response.status = 201) = ~BackendFailed(outcome)
            /\ response.status = 201 =>
                  /\ response.body.success
                  /\ response.body.reservation_id = request.reservation_id

C22_Witness ==
    /\ ReservationAnswered
    /\ results[1].kind = "error" /\ results[1].error = "ReadTimeout"
    /\ response.status = 400
    /\ response.detail = exception_message("ReadTimeout")
    /\ sent # <<>> /\ sent[1].reservation_id = request.reservation_id

\* create_reservation has been entered and has passed its analytics call
ReservationLogged ==
    pc \in {"reservation_logged", "reservation_awaiting", "reservation_cancelled"}
       \/ (pc = "reservation_done" /\ response.status # 422)

\* search_rooms ended in an error answer
SearchFailed == pc = "done" /\ response.status \in {400, 500}

\* C23: create_reservation records its reservation event before it calls
\* the backend, so the event is stored, and counted in total_reservations,
\* total_revenue and the conversion rate of the summary, for every
\* reservation request that reaches the handler, whether the backend
\* accepts it, rejects it or the call fails (the summary being one whose
\* timespan holds the event); search_rooms records its
\* room_search event before any window is enumerated, so the event is
\* stored when the search ends in a 400 or 500.
C23_LoggedBeforeBackend ==
    \A later \in SecondReadings :
    LET summary == get_analytics_summary(room_searches, reservations, utcnow,
                                         later, hours_default)
    IN  /\ pc = "reservation_logged" => (sent = <<>> /\ results = <<>>)
        /\ ReservationLogged =>
              /\ Len(reservations) = 1
              /\ \E timestamp \in 0..utcnow :
                    reservations[1] = reservation_event(timestamp, request)
              /\ InTimespan(reservations[1], later) =>
                    /\ summary.total_reservations = 1
                    /\ summary.total_revenue = request.total_amount
                    /\ summary.conversion_rate =
                          IF summary.total_searches = 0 THEN 0 ELSE 10000
        /\ pc = "logged" => (date_ranges = <<>> /\ tasks = <<>>)
        /\ SearchFailed =>
              /\ Len(room_searches) = 1
              /\ \E timestamp \in 0..utcnow :
                    room_searches[1] =
                       room_search_event(timestamp, request, results_count_default)
              /\ InTimespan(room_searches[1], utcnow) => summary.total_searches = 1

\* a search for more nights than the timespan holds was answered 400 and is
\* in the store; the reservation that followed was rejected by the backend
\* with 404 and is in the store and in the summary
C23_Witness ==
    /\ pc = "reservation_done" /\ response.status = 400
    /\ results # <<>> /\ results[1].kind = "status" /\ results[1].code = 404
    /\ Len(room_searches) = 1
    /\ room_searches[1].data.duration > room_searches[1].data.width
    /\ room_searches[1].data.from_date + room_searches[1].data.width
          - room_searches[1].data.duration >= DateMin
    /\ Len(reservations) = 1 /\ reservations[1].data = request
    /\ reservations[1].timestamp > room_searches[1].timestamp
    /\ request.total_amount = 250
    /\ get_analytics_summary(room_searches, reservations, utcnow, utcnow,
                             hours_default).total_revenue = 250
    /\ get_analytics_summary(room_searches, reservations, utcnow, utcnow,
                             hours_default).conversion_rate = 10000

===========================================================================
